---- MODULE Spec2Model ----
(***************************************************************************)
(* Model of the two operational scripts of archivesspace-docker-mgmt:      *)
(*   restore.py  fetches a dated dump, loads it, runs the fixups, caches   *)
(*   upgrade.py  unpacks a release, patches config, runs restore.py        *)
(*               --upgrade, relocates the dump and switches the deployment *)
(* The state is the filesystem and the container runtime the scripts act   *)
(* on, plus the position, arguments, working directory and exit code of    *)
(* each script process.  Every external command is one step whose exit     *)
(* status is chosen nondeterministically.                                  *)
(***************************************************************************)
EXTENDS Integers, Sequences, FiniteSets, TLC

\* ------------------------------------------------------------------ bounds
MaxRuns == 2        \* operator invocations of a script in one behaviour
MaxLines == 2       \* lines of a flat config file given to the patch
MaxLineLen == 3     \* characters of one such line

\* ------------------------------------------------------- values of the run
Dates == {"2024-01-15", "2024-01-16"}
Today == "2024-01-16"
Tags == {"v1", "v2"}
Bucket == "mybucket"
Db == "mydb"

VARIABLES
  cache,        \* dates D with backups/{db}-{D}.sql.gz present
  scratchGz,    \* dates D with {tmp}/{db}-{D}.sql.gz present
  scratchSql,   \* dates D with {tmp}/{db}-{D}.sql present
  zip,          \* archivesspace-docker-{tag}.zip present in the script dir
  asDir,        \* directory "archivesspace" present in the script dir
  relDirs,      \* tags t with directory archivesspace-docker-{t} present
  optKind,      \* what is at /opt/archivesspace: "absent", "dir", "symlink"
  optTarget,    \* tag the symlink points at, "none" when not a symlink
  running,      \* managed services are up
  envFile,      \* content of the flat file .env, a sequence of lines
  rpc, rdate, rupgrade, rcwd, rentry, rstaged, rexit, rlog,   \* restore.py
  upc, utag, usolr, ucwd, uentry, uexit, ulog,                \* upgrade.py
  uoptEntry,    \* what was at /opt/archivesspace when docker_operations began
  runs,         \* operator invocations so far
  fetched,      \* dates for which download_backup_from_s3 has returned
  refetched,    \* dates fetched again after such a return
  pKey, pOld, pNew, pOrig, ppc      \* arguments and progress of one patch

fsVars == <<cache, scratchGz, scratchSql, zip, asDir, relDirs, optKind,
            optTarget, running, envFile>>
rVars == <<rpc, rdate, rupgrade, rcwd, rentry, rstaged, rexit, rlog>>
uVars == <<upc, utag, usolr, ucwd, uentry, uexit, ulog, uoptEntry>>
hVars == <<runs, fetched, refetched>>
pVars == <<pKey, pOld, pNew, pOrig, ppc>>
vars == <<fsVars, rVars, uVars, hVars, pVars>>

\* ----------------------------------------------------------------- helpers
\* os.chdir("/opt/archivesspace") succeeds when the path is a directory or a
\* symlink whose target directory exists; otherwise it raises OSError.
OptReachable ==
  \/ optKind = "dir"
  \/ optKind = "symlink" /\ optTarget \in relDirs

\* One external command as issued: its name, its arguments, whether it exited 0.
Cmd(c, a, ok) == [cmd |-> c, arg |-> a, ok |-> ok]

\* s3://{bucket}/{db}-{datestamp}.sql.gz
S3Path(d) == <<"s3", Bucket, Db, d>>

\* A run of gunzip whose exit status is not checked.
GunzipUnchecked == FALSE

\* The check= argument of each subprocess.run of restore.py.
AwsCheck == TRUE
GunzipCheck == TRUE
MysqlCheck == TRUE
PasswordResetCheck == TRUE
RmIndexerCheck == TRUE
RmPuiCheck == TRUE

\* docker exec exits 0 only against a running container, and gunzip only
\* on a file that exists: a step's ok is chosen under these conditions.

\* The process has no script running in the foreground of the operator.
NoScript == rpc \in {"idle", "exited"} /\ upc \in {"idle", "exited"}

\* sys.exit(code) of restore.py
RestoreExits(code) == rpc' = "exited" /\ rexit' = code

\* -------------------------------------------------------------- restore.py
\* main up to the try block: arguments, .env, datestamp.
RestoreBegin(d, upg, cwd0, cfgOk) ==
  /\ rdate' = d /\ rupgrade' = upg /\ rcwd' = cwd0 /\ rentry' = cwd0
  /\ rstaged' = FALSE /\ rlog' = << >>
  /\ IF cfgOk THEN rpc' = "download" /\ rexit' = "none" ELSE RestoreExits(1)

\* The operator runs  restore.py [date] [--upgrade]  from a directory.
StartRestore ==
  /\ NoScript /\ runs < MaxRuns
  /\ \E d \in Dates, upg \in BOOLEAN, cwd0 \in {"script_dir", "elsewhere"},
        cfgOk \in BOOLEAN : RestoreBegin(d, upg, cwd0, cfgOk)
  /\ runs' = runs + 1
  /\ UNCHANGED <<fsVars, uVars, fetched, refetched, pVars>>

\* download_backup_from_s3: the cache test and the object-storage copy.
DownloadBackupFromS3 ==
  /\ rpc = "download"
  /\ IF rdate \in cache
       THEN /\ rpc' = "restore_database"
            /\ fetched' = fetched \cup {rdate}
            /\ UNCHANGED <<scratchGz, rexit, rlog, refetched>>
       ELSE \E ok \in BOOLEAN :
            /\ rlog' = Append(rlog, Cmd("aws_s3_cp", S3Path(rdate), ok))
            /\ refetched' = IF rdate \in fetched THEN refetched \cup {rdate}
                            ELSE refetched
            /\ scratchGz' = IF ok THEN scratchGz \cup {rdate} ELSE scratchGz
            /\ IF ok \/ ~AwsCheck
                 THEN rpc' = "gunzip" /\ UNCHANGED rexit
                 ELSE RestoreExits(1)
            /\ UNCHANGED fetched
  /\ UNCHANGED <<cache, scratchSql, zip, asDir, relDirs, optKind, optTarget,
                 running, envFile, rdate, rupgrade, rcwd, rentry, rstaged,
                 uVars, runs, pVars>>

\* download_backup_from_s3: gunzip -k of the fetched file, then the return.
GunzipBackup ==
  /\ rpc = "gunzip"
  /\ \E ok \in BOOLEAN :
       /\ ok => rdate \in scratchGz
       /\ rlog' = Append(rlog, Cmd("gunzip", <<"tmp", Db, rdate>>, ok))
       /\ scratchSql' = IF ok THEN scratchSql \cup {rdate} ELSE scratchSql
       /\ IF ok \/ ~GunzipCheck
            THEN /\ rpc' = "restore_database" /\ rstaged' = TRUE
                 /\ fetched' = fetched \cup {rdate}
                 /\ UNCHANGED rexit
            ELSE RestoreExits(1) /\ UNCHANGED <<rstaged, fetched>>
  /\ UNCHANGED <<cache, scratchGz, zip, asDir, relDirs, optKind, optTarget,
                 running, envFile, rdate, rupgrade, rcwd, rentry,
                 uVars, runs, refetched, pVars>>

\* restore_database: the upgrade-mode return, else getcwd and chdir.
RestoreDatabase ==
  /\ rpc = "restore_database"
  /\ IF rupgrade
       THEN rpc' = "reset_admin_password" /\ UNCHANGED <<rcwd, rexit>>
       ELSE IF OptReachable
         THEN rpc' = "mysql" /\ rcwd' = "opt" /\ UNCHANGED rexit
         ELSE RestoreExits(1) /\ rcwd' = rentry
  /\ UNCHANGED <<fsVars, rdate, rupgrade, rentry, rstaged, rlog, uVars, hVars,
                 pVars>>

\* restore_database: open(sql_file), docker exec mysql, the finally clause.
MysqlLoad ==
  /\ rpc = "mysql"
  /\ rcwd' = rentry
  /\ IF rdate \notin scratchSql
       THEN RestoreExits(1) /\ UNCHANGED rlog
       ELSE \E ok \in BOOLEAN :
            /\ ok => running
            /\ rlog' = Append(rlog, Cmd("mysql", <<"tmp", Db, rdate>>, ok))
            /\ IF ok \/ ~MysqlCheck
                 THEN rpc' = "reset_admin_password" /\ UNCHANGED rexit
                 ELSE RestoreExits(1)
  /\ UNCHANGED <<fsVars, rdate, rupgrade, rentry, rstaged, uVars, hVars,
                 pVars>>

\* reset_admin_password: getcwd and chdir.
ResetAdminPassword ==
  /\ rpc = "reset_admin_password"
  /\ IF OptReachable
       THEN rpc' = "password_reset" /\ rcwd' = "opt" /\ UNCHANGED rexit
       ELSE RestoreExits(1) /\ rcwd' = rentry
  /\ UNCHANGED <<fsVars, rdate, rupgrade, rentry, rstaged, rlog, uVars, hVars,
                 pVars>>

\* reset_admin_password: docker exec password-reset.sh, the finally clause.
PasswordReset ==
  /\ rpc = "password_reset"
  /\ rcwd' = rentry
  /\ \E ok \in BOOLEAN :
       /\ ok => running
       /\ rlog' = Append(rlog, Cmd("password_reset", <<"admin", "admin">>, ok))
       /\ IF ok \/ ~PasswordResetCheck
            THEN rpc' = "reindex_data" /\ UNCHANGED rexit
            ELSE RestoreExits(1)
  /\ UNCHANGED <<fsVars, rdate, rupgrade, rentry, rstaged, uVars, hVars,
                 pVars>>

\* reindex_data: getcwd and chdir.
ReindexData ==
  /\ rpc = "reindex_data"
  /\ IF OptReachable
       THEN rpc' = "rm_indexer" /\ rcwd' = "opt" /\ UNCHANGED rexit
       ELSE RestoreExits(1) /\ rcwd' = rentry
  /\ UNCHANGED <<fsVars, rdate, rupgrade, rentry, rstaged, rlog, uVars, hVars,
                 pVars>>

\* reindex_data: rm -f of the indexer state; on failure the finally clause.
RmIndexerState ==
  /\ rpc = "rm_indexer"
  /\ \E ok \in BOOLEAN :
       /\ ok => running
       /\ rlog' = Append(rlog, Cmd("rm_state", <<"indexer_state">>, ok))
       /\ IF ok \/ ~RmIndexerCheck
            THEN rpc' = "rm_pui" /\ UNCHANGED <<rcwd, rexit>>
            ELSE RestoreExits(1) /\ rcwd' = rentry
  /\ UNCHANGED <<fsVars, rdate, rupgrade, rentry, rstaged, uVars, hVars,
                 pVars>>

\* reindex_data: rm -f of the public indexer state, the finally clause.
RmPuiState ==
  /\ rpc = "rm_pui"
  /\ rcwd' = rentry
  /\ \E ok \in BOOLEAN :
       /\ ok => running
       /\ rlog' = Append(rlog, Cmd("rm_state", <<"indexer_pui_state">>, ok))
       /\ IF ok \/ ~RmPuiCheck
            THEN rpc' = "cleanup" /\ UNCHANGED rexit
            ELSE RestoreExits(1)
  /\ UNCHANGED <<fsVars, rdate, rupgrade, rentry, rstaged, uVars, hVars,
                 pVars>>

\* A cleanup that forgets the decompressed dump.
TempFilesWithoutSql == {"sql.gz"}

\* The scratch files cleanup_temp_files unlinks when they exist.
TempFiles == {"sql.gz", "sql"}

\* cleanup_temp_files, then the end of main.  main passes the compressed
\* scratch path only when download_backup_from_s3 returned a decompressed one.
CleanupTempFiles ==
  /\ rpc = "cleanup"
  /\ cache' = IF rstaged /\ rdate \notin cache THEN cache \cup {rdate} ELSE cache
  /\ scratchGz' = IF "sql.gz" \in TempFiles THEN scratchGz \ {rdate}
                  ELSE scratchGz
  /\ scratchSql' = IF "sql" \in TempFiles THEN scratchSql \ {rdate}
                   ELSE scratchSql
  /\ RestoreExits(0)
  /\ UNCHANGED <<zip, asDir, relDirs, optKind, optTarget, running, envFile,
                 rdate, rupgrade, rcwd, rentry, rstaged, rlog, uVars, hVars,
                 pVars>>

RestoreStep ==
  \/ DownloadBackupFromS3 \/ GunzipBackup \/ RestoreDatabase \/ MysqlLoad
  \/ ResetAdminPassword \/ PasswordReset \/ ReindexData \/ RmIndexerState
  \/ RmPuiState \/ CleanupTempFiles

\* ------------------------------------------- upgrade.py: the flat-file patch
\* Strings are sequences of one-character strings; a file is the sequence of
\* its lines (the text between newlines).
NL == "\n"
Backslash == "\\"
AsciiLetters ==
  {"a","b","c","d","e","f","g","h","i","j","k","l","m","n","o","p","q","r",
   "s","t","u","v","w","x","y","z","A","B","C","D","E","F","G","H","I","J",
   "K","L","M","N","O","P","Q","R","S","T","U","V","W","X","Y","Z"}
GroupDigits == {"1","2","3","4","5","6","7","8","9"}

\* The escapes re.sub resolves in a replacement string.
TemplateEscapes == {"a", "b", "f", "n", "r", "t", "v", Backslash}
EscapeValue(c) ==
  CASE c = "n" -> NL
    [] c = "t" -> "\t"
    [] c = "r" -> "\r"
    [] c = "f" -> "\f"
    [] c = "a" -> "BEL"
    [] c = "b" -> "BS"
    [] c = "v" -> "VT"
    [] OTHER -> Backslash

IsPrefix(p, s) == Len(p) <= Len(s) /\ SubSeq(s, 1, Len(p)) = p

Contains(s, o) ==
  \E i \in 1..(Len(s) - Len(o) + 1) : SubSeq(s, i, i + Len(o) - 1) = o

\* The pattern ^{key}=.*{old}.* under re.MULTILINE, tried on one line: the
\* line starts with key and "=", and old occurs in what follows them.
LineMatches(key, old, line) ==
  /\ IsPrefix(key \o <<"=">>, line)
  /\ Contains(SubSeq(line, Len(key) + 2, Len(line)), old)

\* re.sub's reading of the replacement string f"{key}={new_value}": it is a
\* template, in which a backslash starts an escape.  The pattern has no
\* group, so a group reference is an error; a backslash before a letter that
\* is no known escape, or at the end, is an error; before any other
\* character it is kept.  (The model's strings hold no "0" and no "<".)
RECURSIVE ExpandTemplate(_, _)
ExpandTemplate(t, i) ==
  IF i > Len(t) THEN [err |-> FALSE, out |-> << >>]
  ELSE IF t[i] # Backslash
    THEN LET r == ExpandTemplate(t, i + 1)
         IN  [err |-> r.err, out |-> <<t[i]>> \o r.out]
  ELSE IF i = Len(t) THEN [err |-> TRUE, out |-> << >>]
  ELSE IF t[i + 1] \in TemplateEscapes
    THEN LET r == ExpandTemplate(t, i + 2)
         IN  [err |-> r.err, out |-> <<EscapeValue(t[i + 1])>> \o r.out]
  ELSE IF t[i + 1] \in AsciiLetters \cup GroupDigits
    THEN [err |-> TRUE, out |-> << >>]
  ELSE LET r == ExpandTemplate(t, i + 2)
       IN  [err |-> r.err, out |-> <<Backslash, t[i + 1]>> \o r.out]

\* A string cut at its newlines.
RECURSIVE SplitLines(_)
SplitLines(s) ==
  IF \A i \in 1..Len(s) : s[i] # NL THEN <<s>>
  ELSE LET n == CHOOSE i \in 1..Len(s) :
                  s[i] = NL /\ \A j \in 1..(i - 1) : s[j] # NL
       IN  <<SubSeq(s, 1, n - 1)>> \o SplitLines(SubSeq(s, n + 1, Len(s)))

RECURSIVE Flatten(_)
Flatten(ss) == IF ss = << >> THEN << >> ELSE Head(ss) \o Flatten(Tail(ss))

\* replace_config_value on a file that is not a .rb file: every line the
\* pattern matches is replaced by the expanded template, the others are
\* kept; a template error is raised before anything is written.
ReplaceConfigValue(key, old, new, file) ==
  LET e == ExpandTemplate(key \o <<"=">> \o new, 1)
  IN  IF e.err
        THEN [err |-> TRUE, file |-> file]
        ELSE [err |-> FALSE,
              file |-> Flatten([i \in 1..Len(file) |->
                         IF LineMatches(key, old, file[i])
                           THEN SplitLines(e.out) ELSE <<file[i]>>])]

MysqlDatabaseKey ==
  <<"M","Y","S","Q","L","_","D","A","T","A","B","A","S","E">>
ArchivesspaceValue == <<"a","r","c","h","i","v","e","s","s","p","a","c","e">>
DbValue == <<"m","y","d","b">>
\* .env of a release: the database line and one other assignment
ReleaseEnv ==
  << MysqlDatabaseKey \o <<"=">> \o ArchivesspaceValue,
     <<"M","Y","S","Q","L","_","U","S","E","R","=","a","s">> >>

\* -------------------------------------------------------------- upgrade.py
\* A volume removal whose exit status is checked like the others.
VolumeRmChecked == TRUE

\* The check= argument of each subprocess.run of upgrade.py.
CurlCheck == TRUE
RestoreScriptCheck == TRUE
DownCheck == TRUE
VolumeRmCheck == FALSE
PullCheck == TRUE
UpCheck == TRUE

\* sys.exit(code) of upgrade.py, and its normal end
UpgradeExits(code) == upc' = "exited" /\ uexit' = code

\* The operator runs  upgrade.py [--rebuild-solr]  in the script directory
\* (restore.py and backups/ are named relative to it): main up to the try.
StartUpgrade ==
  /\ NoScript /\ runs < MaxRuns
  /\ \E tag \in Tags, solr \in BOOLEAN, preOk \in BOOLEAN :
       /\ utag' = tag /\ usolr' = solr
       /\ IF preOk THEN upc' = "download" /\ uexit' = "none"
          ELSE UpgradeExits(1)
  /\ ucwd' = "script_dir" /\ uentry' = "script_dir" /\ ulog' = << >>
  /\ uoptEntry' = "none"
  /\ runs' = runs + 1
  /\ UNCHANGED <<fsVars, rVars, fetched, refetched, pVars>>

\* download_and_extract_release: curl -L -O
DownloadRelease ==
  /\ upc = "download"
  /\ \E ok \in BOOLEAN :
       /\ ulog' = Append(ulog, Cmd("curl", <<utag>>, ok))
       /\ zip' = (zip \/ ok)
       /\ IF ok \/ ~CurlCheck THEN upc' = "extract" /\ UNCHANGED uexit
          ELSE UpgradeExits(1)
  /\ UNCHANGED <<cache, scratchGz, scratchSql, asDir, relDirs, optKind,
                 optTarget, running, envFile, utag, usolr, ucwd, uentry,
                 uoptEntry,
                 rVars, hVars, pVars>>

\* download_and_extract_release: extractall and os.remove of the archive; a
\* missing or damaged archive raises.
ExtractRelease ==
  /\ upc = "extract"
  /\ \E ok \in BOOLEAN :
       /\ ok => zip
       /\ IF ok THEN /\ asDir' = TRUE /\ zip' = FALSE
                     /\ upc' = "patch" /\ UNCHANGED uexit
          ELSE UpgradeExits(1) /\ UNCHANGED <<asDir, zip>>
  /\ UNCHANGED <<cache, scratchGz, scratchSql, relDirs, optKind, optTarget,
                 running, envFile, utag, usolr, ucwd, uentry, uoptEntry,
                 ulog, rVars, hVars, pVars>>

\* The five replace_config_value calls of main: the flat file .env, then
\* config/config.rb, whose absence raises.
PatchConfig ==
  /\ upc = "patch"
  /\ LET r == ReplaceConfigValue(MysqlDatabaseKey, ArchivesspaceValue,
                                 DbValue, envFile)
     IN  IF r.err THEN UpgradeExits(1) /\ UNCHANGED envFile
         ELSE /\ envFile' = r.file
              /\ \E rbOk \in BOOLEAN :
                   IF rbOk THEN upc' = "run_restore" /\ UNCHANGED uexit
                   ELSE UpgradeExits(1)
  /\ UNCHANGED <<cache, scratchGz, scratchSql, zip, asDir, relDirs, optKind,
                 optTarget, running, utag, usolr, ucwd, uentry, uoptEntry,
                 ulog,
                 rVars, hVars, pVars>>

\* run_restore_script: python3 restore.py --upgrade starts as a child, in
\* the caller's directory, with today's date.
RunRestoreScript ==
  /\ upc = "run_restore"
  /\ upc' = "wait_restore"
  /\ \E cfgOk \in BOOLEAN : RestoreBegin(Today, TRUE, ucwd, cfgOk)
  /\ UNCHANGED <<fsVars, utag, usolr, ucwd, uentry, uoptEntry, uexit, ulog,
                 hVars, pVars>>

\* run_restore_script: the child has exited.
RestoreScriptReturns ==
  /\ upc = "wait_restore" /\ rpc = "exited"
  /\ ulog' = Append(ulog, Cmd("restore.py", <<"--upgrade">>, rexit = 0))
  /\ IF rexit = 0 \/ ~RestoreScriptCheck
       THEN upc' = "prepare" /\ UNCHANGED uexit
       ELSE UpgradeExits(1)
  /\ UNCHANGED <<fsVars, utag, usolr, ucwd, uentry, uoptEntry, rVars,
                 hVars, pVars>>

\* prepare_database_backup: gunzip -k of today's cached dump, then the move
\* into archivesspace/sql (makedirs creates the directory when absent).
PrepareDatabaseBackup ==
  /\ upc = "prepare"
  /\ \E ok \in BOOLEAN :
       /\ ok => Today \in cache
       /\ ulog' = Append(ulog, Cmd("gunzip", <<"backups", Db, Today>>, ok))
       /\ IF ok THEN asDir' = TRUE /\ upc' = "setup_rm" /\ UNCHANGED uexit
          ELSE UpgradeExits(1) /\ UNCHANGED asDir
  /\ UNCHANGED <<cache, scratchGz, scratchSql, zip, relDirs, optKind,
                 optTarget, running, envFile, utag, usolr, ucwd, uentry,
                 uoptEntry,
                 rVars, hVars, pVars>>

\* setup_archivesspace_directory: rmtree of archivesspace-docker-{tag}
RemoveOldDirectory ==
  /\ upc = "setup_rm"
  /\ relDirs' = relDirs \ {utag}
  /\ upc' = "setup_mv"
  /\ UNCHANGED <<cache, scratchGz, scratchSql, zip, asDir, optKind, optTarget,
                 running, envFile, utag, usolr, ucwd, uentry, uoptEntry,
                 uexit, ulog,
                 rVars, hVars, pVars>>

\* setup_archivesspace_directory: archivesspace renamed to
\* archivesspace-docker-{tag}
RenameDirectory ==
  /\ upc = "setup_mv"
  /\ IF asDir THEN asDir' = FALSE /\ relDirs' = relDirs \cup {utag}
     ELSE UNCHANGED <<asDir, relDirs>>
  /\ upc' = "down" /\ uoptEntry' = optKind
  /\ UNCHANGED <<cache, scratchGz, scratchSql, zip, optKind, optTarget,
                 running, envFile, utag, usolr, ucwd, uentry, uexit, ulog,
                 rVars, hVars, pVars>>

\* ------------------------------------------ upgrade.py: docker_operations
\* docker_operations with the services started before the symlink swap.
DockerSequenceStartFirst ==
  <<"down", "volume_rm", "pull", "up", "unlink", "symlink">>

\* The statements of docker_operations in program order.
DockerSequence == <<"down", "volume_rm", "unlink", "symlink", "pull", "up">>

\* The statement after `step`; the volume removal is skipped without
\* --rebuild-solr; "return" after the last one.
RECURSIVE StepAfter(_, _)
StepAfter(step, solr) ==
  LET i == CHOOSE k \in 1..Len(DockerSequence) : DockerSequence[k] = step
      n == IF i = Len(DockerSequence) THEN "return" ELSE DockerSequence[i + 1]
  IN  IF n = "volume_rm" /\ ~solr THEN StepAfter(n, solr) ELSE n

\* Control moves on inside docker_operations, or back to main, which ends.
Proceed(step) ==
  IF StepAfter(step, usolr) = "return" THEN UpgradeExits(0)
  ELSE upc' = StepAfter(step, usolr) /\ UNCHANGED uexit

\* chdir to /opt/archivesspace, docker compose down
ComposeDown ==
  /\ upc = "down"
  /\ IF ~OptReachable
       THEN UpgradeExits(1) /\ UNCHANGED <<ucwd, ulog, running>>
       ELSE /\ ucwd' = "opt"
            /\ \E ok \in BOOLEAN :
                 /\ ulog' = Append(ulog, Cmd("compose_down", << >>, ok))
                 /\ IF ok THEN running' = FALSE
                    ELSE running' \in {running, FALSE}
                 /\ IF ok \/ ~DownCheck THEN Proceed("down")
                    ELSE UpgradeExits(1)
  /\ UNCHANGED <<cache, scratchGz, scratchSql, zip, asDir, relDirs, optKind,
                 optTarget, envFile, utag, usolr, uentry, uoptEntry, rVars,
                 hVars, pVars>>

\* docker volume rm of the two persistent volumes
VolumeRm ==
  /\ upc = "volume_rm"
  /\ \E ok \in BOOLEAN :
       /\ ulog' = Append(ulog, Cmd("volume_rm",
                    <<"archivesspace_app-data", "archivesspace_solr-data">>, ok))
       /\ IF ok \/ ~VolumeRmCheck THEN Proceed("volume_rm")
          ELSE UpgradeExits(1)
  /\ UNCHANGED <<fsVars, utag, usolr, ucwd, uentry, uoptEntry, rVars,
                 hVars, pVars>>

\* chdir back to the script directory; unlink of what is at the canonical
\* path (a directory there makes unlink raise)
UnlinkCanonical ==
  /\ upc = "unlink"
  /\ ucwd' = "script_dir"
  /\ IF optKind = "dir"
       THEN UpgradeExits(1) /\ UNCHANGED <<optKind, optTarget>>
       ELSE optKind' = "absent" /\ optTarget' = "none" /\ Proceed("unlink")
  /\ UNCHANGED <<cache, scratchGz, scratchSql, zip, asDir, relDirs, running,
                 envFile, utag, usolr, uentry, uoptEntry, ulog, rVars,
                 hVars, pVars>>

\* symlink_to(archivesspace-docker-{tag}); it raises when the path exists
SymlinkCanonical ==
  /\ upc = "symlink"
  /\ IF optKind # "absent"
       THEN UpgradeExits(1) /\ UNCHANGED <<optKind, optTarget>>
       ELSE optKind' = "symlink" /\ optTarget' = utag /\ Proceed("symlink")
  /\ UNCHANGED <<cache, scratchGz, scratchSql, zip, asDir, relDirs, running,
                 envFile, utag, usolr, ucwd, uentry, uoptEntry, ulog,
                 rVars, hVars, pVars>>

\* chdir to /opt/archivesspace, docker compose pull
ComposePull ==
  /\ upc = "pull"
  /\ IF ~OptReachable
       THEN UpgradeExits(1) /\ UNCHANGED <<ucwd, ulog>>
       ELSE /\ ucwd' = "opt"
            /\ \E ok \in BOOLEAN :
                 /\ ulog' = Append(ulog, Cmd("compose_pull", <<optTarget>>, ok))
                 /\ IF ok \/ ~PullCheck THEN Proceed("pull")
                    ELSE UpgradeExits(1)
  /\ UNCHANGED <<fsVars, utag, usolr, uentry, uoptEntry, rVars, hVars, pVars>>

\* docker compose up -d --build --force-recreate, in the current directory
ComposeUp ==
  /\ upc = "up"
  /\ \E ok \in BOOLEAN :
       /\ ulog' = Append(ulog, Cmd("compose_up", <<optTarget>>, ok))
       /\ IF ok THEN running' = TRUE ELSE running' \in {running, TRUE}
       /\ IF ok \/ ~UpCheck THEN Proceed("up") ELSE UpgradeExits(1)
  /\ UNCHANGED <<cache, scratchGz, scratchSql, zip, asDir, relDirs, optKind,
                 optTarget, envFile, utag, usolr, ucwd, uentry, uoptEntry,
                 rVars, hVars,
                 pVars>>

DockerOperations ==
  \/ ComposeDown \/ VolumeRm \/ UnlinkCanonical \/ SymlinkCanonical
  \/ ComposePull \/ ComposeUp

UpgradeStep ==
  \/ DownloadRelease \/ ExtractRelease \/ PatchConfig \/ RunRestoreScript
  \/ RestoreScriptReturns \/ PrepareDatabaseBackup \/ RemoveOldDirectory
  \/ RenameDirectory \/ DockerOperations

\* ----------------------------------------------------------- specifications
Idle ==
  /\ rpc = "idle" /\ rdate = Today /\ rupgrade = FALSE /\ rcwd = "script_dir"
  /\ rentry = "script_dir" /\ rstaged = FALSE /\ rexit = "none" /\ rlog = << >>
  /\ upc = "idle" /\ utag = "v1" /\ usolr = FALSE /\ ucwd = "script_dir"
  /\ uentry = "script_dir" /\ uexit = "none" /\ ulog = << >>
  /\ uoptEntry = "none"
  /\ runs = 0 /\ fetched = {} /\ refetched = {}

NoPatch ==
  /\ pKey = << >> /\ pOld = << >> /\ pNew = << >> /\ pOrig = << >>
  /\ ppc = "none"

\* A host before any script runs: no dump cached or staged; the canonical
\* path absent, a plain directory, or a symlink to an installed release.
Init ==
  /\ cache = {} /\ scratchGz = {} /\ scratchSql = {}
  /\ zip = FALSE /\ asDir = FALSE
  /\ relDirs \in {{}, {"v1"}}
  /\ \/ optKind = "absent" /\ optTarget = "none"
     \/ optKind = "dir" /\ optTarget = "none"
     \/ optKind = "symlink" /\ optTarget \in relDirs
  /\ running \in BOOLEAN /\ (running => optKind # "absent")
  /\ envFile = ReleaseEnv
  /\ Idle /\ NoPatch

Next == StartRestore \/ StartUpgrade \/ RestoreStep \/ UpgradeStep

Spec == Init /\ [][Next]_vars

\* docker_operations called on its own: the release directory of the tag is
\* in place; anything may be at the canonical path.
InitSwitch ==
  /\ cache = {} /\ scratchGz = {} /\ scratchSql = {}
  /\ zip = FALSE /\ asDir = FALSE /\ envFile = ReleaseEnv
  /\ utag \in Tags /\ usolr \in BOOLEAN
  /\ relDirs \in {S \in SUBSET Tags : utag \in S}
  /\ \/ optKind = "absent" /\ optTarget = "none"
     \/ optKind = "dir" /\ optTarget = "none"
     \/ optKind = "symlink" /\ optTarget \in Tags
  /\ running \in BOOLEAN /\ (running => OptReachable)
  /\ rpc = "idle" /\ rdate = Today /\ rupgrade = FALSE /\ rcwd = "script_dir"
  /\ rentry = "script_dir" /\ rstaged = FALSE /\ rexit = "none" /\ rlog = << >>
  /\ upc = "down" /\ ucwd = "script_dir" /\ uentry = "script_dir"
  /\ uexit = "none" /\ ulog = << >> /\ uoptEntry = optKind
  /\ runs = 0 /\ fetched = {} /\ refetched = {}
  /\ NoPatch

NextSwitch == DockerOperations

SpecSwitch == InitSwitch /\ [][NextSwitch]_vars

\* replace_config_value called on its own on a flat file.
PatchAlphabet == {"k", "=", "o"}
PatchLines ==
  UNION {[1..n -> PatchAlphabet] : n \in 0..MaxLineLen}
PatchFiles ==
  UNION {[1..n -> PatchLines] : n \in 0..MaxLines}
PatchNews ==
  { <<"x">>, <<"o">>, <<Backslash, "n">>, <<Backslash, Backslash>>,
    <<Backslash, "x">>, <<"x", Backslash>>, <<Backslash, "=">> }
PatchInputs ==
  ({<<"k">>} \X {<<"o">>, <<"k">>} \X PatchNews \X PatchFiles)
  \cup {<<MysqlDatabaseKey, ArchivesspaceValue, DbValue, ReleaseEnv>>}

InitPatch ==
  /\ cache = {} /\ scratchGz = {} /\ scratchSql = {}
  /\ zip = FALSE /\ asDir = FALSE /\ relDirs = {}
  /\ optKind = "absent" /\ optTarget = "none" /\ running = FALSE
  /\ Idle
  /\ \E in \in PatchInputs :
       /\ pKey = in[1] /\ pOld = in[2] /\ pNew = in[3]
       /\ pOrig = in[4] /\ envFile = in[4]
  /\ ppc = "ready"

ApplyPatch ==
  /\ ppc = "ready"
  /\ LET r == ReplaceConfigValue(pKey, pOld, pNew, envFile)
     IN  envFile' = r.file /\ ppc' = IF r.err THEN "error" ELSE "done"
  /\ UNCHANGED <<cache, scratchGz, scratchSql, zip, asDir, relDirs, optKind,
                 optTarget, running, rVars, uVars, hVars, pKey, pOld, pNew,
                 pOrig>>

NextPatch == ApplyPatch

SpecPatch == InitPatch /\ [][NextPatch]_vars

\* ------------------------------------------------------------------ claims
Failed(log) == {i \in 1..Len(log) : ~log[i].ok}
Issued(log, c) == {i \in 1..Len(log) : log[i].cmd = c}

\* C1: a standalone restore of date D that found no cached dump and ended
\* with exit code 0 has issued exactly the fetch of s3://{bucket}/{db}-{D}.sql.gz,
\* the decompression, the database load and the fixups, in that order, and
\* leaves backups/{db}-{D}.sql.gz present and neither {db}-{D}.sql nor
\* {db}-{D}.sql.gz in the scratch directory.
C1_StandaloneRestore ==
  (rpc = "exited" /\ rexit = 0 /\ ~rupgrade /\ rstaged) =>
    /\ rlog = << Cmd("aws_s3_cp", S3Path(rdate), TRUE),
                 Cmd("gunzip", <<"tmp", Db, rdate>>, TRUE),
                 Cmd("mysql", <<"tmp", Db, rdate>>, TRUE),
                 Cmd("password_reset", <<"admin", "admin">>, TRUE),
                 Cmd("rm_state", <<"indexer_state">>, TRUE),
                 Cmd("rm_state", <<"indexer_pui_state">>, TRUE) >>
    /\ rdate \in cache
    /\ rdate \notin scratchGz /\ rdate \notin scratchSql

C1_Witness ==
  /\ rpc = "exited" /\ rexit = 0 /\ ~rupgrade /\ rstaged
  /\ rdate = "2024-01-15" /\ Len(rlog) = 6

\* C2: once download_backup_from_s3 has returned for a date, no later call
\* for that date issues the object-storage copy again.
C2_FetchAtMostOnce == refetched = {}

\* C3: in restore.py a command that exits non-zero is the last command
\* issued, and the process has then exited with code 1; in particular no
\* decompression follows a failed fetch.
C3_FailureStopsRestore ==
  /\ \A i \in Failed(rlog) :
       i = Len(rlog) /\ rpc = "exited" /\ rexit = 1
  /\ \A i \in Issued(rlog, "gunzip") : i > 1 /\ rlog[i - 1].ok

C3_Witness ==
  /\ rpc = "exited" /\ rexit = 1 /\ ~rupgrade
  /\ Len(rlog) = 3 /\ rlog[3].cmd = "mysql" /\ ~rlog[3].ok

C4_LogOrder ==
  /\ \A i \in Issued(ulog, "compose_pull") \cup Issued(ulog, "compose_up") :
       /\ ulog[i].arg = <<utag>>
       /\ \E j \in 1..(i - 1) : ulog[j].cmd = "compose_down" /\ ulog[j].ok
  /\ \A i \in Issued(ulog, "compose_up") :
       \E j \in 1..(i - 1) : ulog[j].cmd = "compose_pull" /\ ulog[j].ok

C4_PathStep ==
  (<<optKind, optTarget>>' # <<optKind, optTarget>>) =>
    /\ \E j \in 1..Len(ulog) : ulog[j].cmd = "compose_down" /\ ulog[j].ok
    /\ Issued(ulog, "compose_pull") \cup Issued(ulog, "compose_up") = {}
    /\ \/ optKind # "absent" /\ optKind' = "absent"
       \/ optKind = "absent" /\ optKind' = "symlink" /\ optTarget' = utag

\* C4: docker_operations keeps its order.  The canonical path changes only
\* after compose down succeeded and before any pull or up; a symlink is
\* created only where nothing is, and points at archivesspace-docker-{tag};
\* pull and up are issued only while the canonical path points at
\* archivesspace-docker-{tag}, and up only after a successful pull.
C4_StrictOrder == []C4_LogOrder /\ [][C4_PathStep]_vars

C4_Witness ==
  /\ upc = "exited" /\ uexit = 0 /\ utag = "v2" /\ "v1" \in relDirs
  /\ optKind = "symlink" /\ optTarget = "v2" /\ running

\* C5: docker_operations begun with nothing at the canonical path ends with
\* success and a symlink there pointing at archivesspace-docker-{tag}.
C5_NoPriorSymlink ==
  (upc = "exited" /\ uoptEntry = "absent") =>
    uexit = 0 /\ optKind = "symlink" /\ optTarget = utag

BothVolumes == <<"archivesspace_app-data", "archivesspace_solr-data">>

C6_Log ==
  /\ ~usolr => Issued(ulog, "volume_rm") = {}
  /\ \A i \in Issued(ulog, "volume_rm") :
       /\ ulog[i].arg = BothVolumes
       /\ i > 1 /\ ulog[i - 1].cmd = "compose_down" /\ ulog[i - 1].ok
  /\ (usolr /\ upc \in {"unlink", "symlink", "pull", "up"}) =>
       Cardinality(Issued(ulog, "volume_rm")) = 1
  /\ (usolr /\ upc = "exited" /\ uexit = 0) =>
       Cardinality(Issued(ulog, "volume_rm")) = 1
  /\ \A i \in Failed(ulog) :
       ulog[i].cmd \in {"compose_down", "compose_pull", "compose_up"} =>
         i = Len(ulog) /\ upc = "exited" /\ uexit = 1

C6_Step ==
  (Len(ulog') = Len(ulog) + 1 /\ ulog'[Len(ulog')].cmd = "volume_rm") =>
    upc' = "unlink" /\ uexit' = "none"

\* C6: with --rebuild-solr one volume removal naming both volumes follows
\* the successful compose down, and whatever its exit status the symlink
\* swap comes next; without the flag there is none; a failed compose down,
\* pull or up is the last command and the process has exited with code 1.
C6_VolumeRemoval == []C6_Log /\ [][C6_Step]_vars

C6_Witness ==
  /\ upc = "exited" /\ uexit = 0 /\ usolr /\ running
  /\ \E i \in Issued(ulog, "volume_rm") : ~ulog[i].ok

\* C7: outside the body of a component that changes the working directory,
\* the working directory is the one the process had at entry: between the
\* components of restore.py and at its exit, and when upgrade.py has left
\* docker_operations (the process has ended, normally or with an error).
C7_CwdRestored ==
  /\ rpc \in {"download", "gunzip", "restore_database",
              "reset_admin_password", "reindex_data", "cleanup", "exited"}
       => rcwd = rentry
  /\ upc = "exited" => ucwd = uentry

\* C8: the flat-file patch with key K, old O, new N succeeds and turns each
\* line that begins with K= and has O after it into K=N, keeping every
\* other line as it was.
C8_FlatPatch ==
  ppc # "ready" =>
    /\ ppc = "done"
    /\ envFile = [i \in 1..Len(pOrig) |->
         IF /\ IsPrefix(pKey \o <<"=">>, pOrig[i])
            /\ Contains(SubSeq(pOrig[i], Len(pKey) + 2, Len(pOrig[i])), pOld)
           THEN pKey \o <<"=">> \o pNew
           ELSE pOrig[i]]

\* C9: whenever a standalone restore reaches the database load, the
\* decompressed dump {db}-{date}.sql is in the scratch directory.
C9_DumpStaged ==
  (rpc = "mysql" /\ ~rupgrade) => rdate \in scratchSql

C10_LiveDirStep ==
  (running /\ optKind = "symlink" /\ optTarget \in relDirs) =>
    optTarget \in relDirs'

\* C10: while services are running, no step deletes or renames away the
\* release directory the canonical path points to.
C10_LiveDirKept == [][C10_LiveDirStep]_vars

====
